---- MODULE Spec2Model ----
(***************************************************************************)
(* Model of the two operational scripts of the ebook-reader repository:    *)
(*   backend/create-opensearch-index.py  (the Index Provisioner)           *)
(*   test-agent.py                       (the Agent Tester)                *)
(* A run executes one of the two scripts.  A Python string is a sequence   *)
(* of tokens (characters or fixed message parts); standard output is the   *)
(* sequence of print calls, each the string it wrote.  The external        *)
(* services are the environment: every call chooses its outcome.           *)
(***************************************************************************)
EXTENDS Integers, Sequences, FiniteSets, TLC

VARIABLES script, pc, sys_argv, stdout, exit_status, raised, calls, client,
          agent_id, alias_id, question, completion, stream_read, stream_state,
          endpoint, host, index_body, response

vars == <<script, pc, sys_argv, stdout, exit_status, raised, calls, client,
          agent_id, alias_id, question, completion, stream_read, stream_state,
          endpoint, host, index_body, response>>

testerVars == <<agent_id, alias_id, question, completion, stream_read,
               stream_state>>
provVars == <<endpoint, host, index_body, response>>

(* ---------------- bounds ---------------- *)
MaxArgs == 3
MaxEvents == 3
MaxMsgLen == 3
MaxDetails == 2

(* ---------------- strings ---------------- *)
NL == "\n"

RECURSIVE Flat(_)
Flat(ss) == IF ss = <<>> THEN <<>> ELSE Head(ss) \o Flat(Tail(ss))

SeqsUpTo(S, n) == UNION {[1..k -> S] : k \in 0..n}

\* needle in haystack, as Python's `in` on two strings
IsSubstring(needle, hay) ==
  \E i \in 0..(Len(hay) - Len(needle)) :
     \A j \in 1..Len(needle) : hay[i + j] = needle[j]

\* str.replace(old, ''): every occurrence of the token sequence old is removed
RECURSIVE Remove(_, _)
Remove(s, old) ==
  IF Len(s) < Len(old) \/ Len(s) = 0 THEN s
  ELSE IF SubSeq(s, 1, Len(old)) = old
       THEN Remove(SubSeq(s, Len(old) + 1, Len(s)), old)
       ELSE <<Head(s)>> \o Remove(Tail(s), old)

\* print(s, end=e): one more write on standard output
Emit(out, s, e) == Append(out, s \o e)

(* ---------------- errors ---------------- *)
NoError == [type |-> "None", msg |-> <<>>]
Marker == <<"resource_already_exists", "_exception">>
MsgTokens == {"resource_already_exists", "_exception", "denied"}
ErrMsgs == SeqsUpTo(MsgTokens, MaxMsgLen) \ {<<>>}
TesterMsgs == {<<"denied">>, Marker}
Err(t, m) == [type |-> t, msg |-> m]

\* an exception nobody catches: the interpreter ends with status 1
Unhandled(e) ==
  /\ raised' = e
  /\ exit_status' = 1
  /\ pc' = "done"

(* ---------------- UTF-8 ---------------- *)
IsCont(b) == b >= 128 /\ b <= 191

Chr(cp) == CASE cp = 65 -> "A"
             [] cp = 233 -> "e-acute"
             [] OTHER -> ToString(cp)

\* bytes.decode('utf-8') with the default strict error handling
RECURSIVE DecodeFrom(_, _, _)
DecodeFrom(bs, i, acc) ==
  IF i > Len(bs) THEN [ok |-> TRUE, text |-> acc]
  ELSE LET b == bs[i]
           bad == [ok |-> FALSE, text |-> <<>>]
           c(k) == bs[i + k]
           has(k) == i + k <= Len(bs) /\ \A j \in 1..k : IsCont(bs[i + j])
       IN IF b < 128 THEN DecodeFrom(bs, i + 1, Append(acc, Chr(b)))
          ELSE IF b >= 194 /\ b <= 223
          THEN IF has(1)
               THEN DecodeFrom(bs, i + 2,
                      Append(acc, Chr((b - 192) * 64 + (c(1) - 128))))
               ELSE bad
          ELSE IF b >= 224 /\ b <= 239
          THEN IF has(2) /\ (b = 224 => c(1) >= 160) /\ (b = 237 => c(1) <= 159)
               THEN DecodeFrom(bs, i + 3,
                      Append(acc, Chr((b - 224) * 4096 + (c(1) - 128) * 64
                                      + (c(2) - 128))))
               ELSE bad
          ELSE IF b >= 240 /\ b <= 244
          THEN IF has(3) /\ (b = 240 => c(1) >= 144) /\ (b = 244 => c(1) <= 143)
               THEN DecodeFrom(bs, i + 4,
                      Append(acc, Chr((b - 240) * 262144 + (c(1) - 128) * 4096
                                      + (c(2) - 128) * 64 + (c(3) - 128))))
               ELSE bad
          ELSE bad

Decode(bs) == DecodeFrom(bs, 1, <<>>)

(* ---------------- inputs ---------------- *)
ScriptName == "test-agent.py"
ArgVals == {"id-1", "id-2"}
ArgvSet == {<<ScriptName>> \o a : a \in SeqsUpTo(ArgVals, MaxArgs)}

\* payloads of a chunk: empty, ASCII, a two-byte character, and its two
\* halves as they arrive when the character is split over two chunks
Payloads == {<<>>, <<65>>, <<195, 169>>, <<195>>, <<169>>}
Events == {[chunk |-> TRUE, bytes |-> TRUE, payload |-> p] : p \in Payloads}
          \cup {[chunk |-> TRUE, bytes |-> FALSE, payload |-> <<>>],
                [chunk |-> FALSE, bytes |-> FALSE, payload |-> <<>>]}

(* ---------------- the Agent Tester ---------------- *)
UsageLine == "Usage: python3 test-agent.py <agent-id> <alias-id> [question]"
DefaultQuestion == "What is a derivative?"
SessionId == "test-session-123"
NoClient == [service |-> "None", region |-> "None", host |-> <<>>,
             port |-> 0, timeout |-> 0]

HasText(ev) == ev.chunk /\ ev.bytes

(* ---------------- the Index Provisioner ---------------- *)
REGION == "eu-west-1"
COLLECTION_NAME == "quickbook-vectors"
INDEX_NAME == "textbook-index"
Scheme == "https://"

Endpoints == {<<Scheme, "abc.eu-west-1.aoss.amazonaws.com">>,
              <<"abc.eu-west-1.aoss.amazonaws.com">>}
Details == {[hasEndpoint |-> TRUE, collectionEndpoint |-> ep] : ep \in Endpoints}
           \cup {[hasEndpoint |-> FALSE, collectionEndpoint |-> <<>>]}

NoResponse == [set |-> FALSE, collectionDetails |-> <<>>, acknowledged |-> FALSE]
NoBody == [defined |-> FALSE]

\* variant: the vector dimension of another embedding model
IndexBodyLiteral_dim ==
  [defined |-> TRUE,
   settings |-> [index_knn |-> TRUE],
   mappings |-> [properties |->
      [embedding |-> [type |-> "knn_vector",
                      dimension |-> 768,
                      method |-> [engine |-> "faiss", name |-> "hnsw"]],
       content |-> [type |-> "text"],
       metadata |-> [type |-> "object"]]]]

\* the literal of lines 32-54
IndexBodyLiteral ==
  [defined |-> TRUE,
   settings |-> [index_knn |-> TRUE],
   mappings |-> [properties |->
      [embedding |-> [type |-> "knn_vector",
                      dimension |-> 1536,
                      method |-> [engine |-> "faiss", name |-> "hnsw"]],
       content |-> [type |-> "text"],
       metadata |-> [type |-> "object"]]]]

\* json.dumps(response, indent=2) of the create-index acknowledgement
JsonDumps(r) == <<"{ acknowledged: ", IF r.acknowledged THEN "true" ELSE "false", " }">>

\* one call of an external service: the request, and what the service answered
Call(op, req, ok, err, result) ==
  [op |-> op, req |-> req, ok |-> ok, err |-> err, result |-> result]

Init ==
  /\ script \in {"tester", "provisioner"}
  /\ pc = "main"
  /\ sys_argv \in (IF script = "tester" THEN ArgvSet
                   ELSE {<<"create-opensearch-index.py">>})
  /\ stdout = <<>>
  /\ exit_status = -1
  /\ raised = NoError
  /\ calls = <<>>
  /\ client = NoClient
  /\ agent_id = "" /\ alias_id = "" /\ question = ""
  /\ completion = <<>>
  /\ stream_read = <<>>
  /\ stream_state = "none"
  /\ endpoint = <<>> /\ host = <<>>
  /\ index_body = NoBody
  /\ response = NoResponse

\* variant: the usage branch ends with status 0
TMainUsage_exit0 ==
  /\ script = "tester" /\ pc = "main"
  /\ Len(sys_argv) < 3
  /\ stdout' = Emit(stdout, <<UsageLine>>, <<NL>>)
  /\ exit_status' = 0
  /\ pc' = "done"
  /\ UNCHANGED <<script, sys_argv, raised, calls, client>>
  /\ UNCHANGED testerVars /\ UNCHANGED provVars

\* __main__, lines 37-46, up to the call of test_agent
TMainUsage ==
  /\ script = "tester" /\ pc = "main"
  /\ Len(sys_argv) < 3
  /\ stdout' = Emit(stdout, <<UsageLine>>, <<NL>>)
  /\ exit_status' = 1
  /\ pc' = "done"
  /\ UNCHANGED <<script, sys_argv, raised, calls, client>>
  /\ UNCHANGED testerVars /\ UNCHANGED provVars

TMainArgs ==
  /\ script = "tester" /\ pc = "main"
  /\ ~(Len(sys_argv) < 3)
  /\ agent_id' = sys_argv[2]
  /\ alias_id' = sys_argv[3]
  /\ question' = IF Len(sys_argv) > 3 THEN sys_argv[4] ELSE DefaultQuestion
  /\ pc' = "t_client"
  /\ UNCHANGED <<script, sys_argv, stdout, exit_status, raised, calls, client>>
  /\ UNCHANGED <<completion, stream_read, stream_state>> /\ UNCHANGED provVars

\* test_agent, lines 7-10: the client is made outside the try block
TClientOk ==
  /\ script = "tester" /\ pc = "t_client"
  /\ client' = [NoClient EXCEPT !.service = "bedrock-agent-runtime",
                                !.region = "eu-west-1"]
  /\ stdout' = Emit(Emit(stdout, <<"Testing Agent...">>, <<NL>>),
                     <<"Question: ", question, NL>>, <<NL>>)
  /\ pc' = "t_invoke"
  /\ UNCHANGED <<script, sys_argv, exit_status, raised, calls>>
  /\ UNCHANGED testerVars /\ UNCHANGED provVars

TClientFail ==
  /\ script = "tester" /\ pc = "t_client"
  /\ \E m \in TesterMsgs : Unhandled(Err("BotoCoreError", m))
  /\ UNCHANGED <<script, sys_argv, stdout, calls, client>>
  /\ UNCHANGED testerVars /\ UNCHANGED provVars

\* variant: the two identifiers are passed in each other's place
InvokeRequest_swapped == [agentId |-> alias_id, agentAliasId |-> agent_id,
                          sessionId |-> SessionId, inputText |-> question]

InvokeRequest == [agentId |-> agent_id, agentAliasId |-> alias_id,
                  sessionId |-> SessionId, inputText |-> question]

\* variant: the except clause prints the error but ends with status 0
Caught_exit0(out, e) ==
  /\ stdout' = Emit(out, <<"Error: ">> \o e.msg, <<NL>>)
  /\ exit_status' = 0
  /\ pc' = "done"

\* the except clause of test_agent, lines 33-35
Caught(out, e) ==
  /\ stdout' = Emit(out, <<"Error: ">> \o e.msg, <<NL>>)
  /\ exit_status' = 1
  /\ pc' = "done"

\* lines 13-21
TInvokeOk ==
  /\ script = "tester" /\ pc = "t_invoke"
  /\ calls' = Append(calls, Call("invoke_agent", InvokeRequest, TRUE, NoError, <<>>))
  /\ stdout' = Emit(stdout, <<"Response:">>, <<NL>>)
  /\ completion' = <<>>
  /\ stream_state' = "open"
  /\ pc' = "t_loop"
  /\ UNCHANGED <<script, sys_argv, exit_status, raised, client>>
  /\ UNCHANGED <<agent_id, alias_id, question, stream_read>>
  /\ UNCHANGED provVars

TInvokeFail ==
  /\ script = "tester" /\ pc = "t_invoke"
  /\ \E m \in TesterMsgs :
       LET e == Err("ClientError", m) IN
       /\ calls' = Append(calls, Call("invoke_agent", InvokeRequest, FALSE, e, <<>>))
       /\ Caught(stdout, e)
  /\ UNCHANGED <<script, sys_argv, raised, client>>
  /\ UNCHANGED testerVars /\ UNCHANGED provVars

\* variant: the fragment is put in front of the accumulator
TLoopEvent_prepend ==
  /\ script = "tester" /\ pc = "t_loop"
  /\ stream_state = "open" /\ Len(stream_read) < MaxEvents
  /\ \E ev \in Events :
       /\ HasText(ev) => Decode(ev.payload).ok
       /\ stream_read' = Append(stream_read, ev)
       /\ IF HasText(ev)
          THEN LET text == Decode(ev.payload).text IN
               /\ completion' = text \o completion
               /\ stdout' = Emit(stdout, text, <<>>)
          ELSE UNCHANGED <<completion, stdout>>
  /\ UNCHANGED <<script, pc, sys_argv, exit_status, raised, calls, client>>
  /\ UNCHANGED <<agent_id, alias_id, question, stream_state>>
  /\ UNCHANGED provVars

\* lines 23-29, one iteration whose event is handled without an error
TLoopEvent ==
  /\ script = "tester" /\ pc = "t_loop"
  /\ stream_state = "open" /\ Len(stream_read) < MaxEvents
  /\ \E ev \in Events :
       /\ HasText(ev) => Decode(ev.payload).ok
       /\ stream_read' = Append(stream_read, ev)
       /\ IF HasText(ev)
          THEN LET text == Decode(ev.payload).text IN
               /\ completion' = completion \o text
               /\ stdout' = Emit(stdout, text, <<>>)
          ELSE UNCHANGED <<completion, stdout>>
  /\ UNCHANGED <<script, pc, sys_argv, exit_status, raised, calls, client>>
  /\ UNCHANGED <<agent_id, alias_id, question, stream_state>>
  /\ UNCHANGED provVars

\* line 27 raises UnicodeDecodeError
TLoopDecodeFail ==
  /\ script = "tester" /\ pc = "t_loop"
  /\ stream_state = "open" /\ Len(stream_read) < MaxEvents
  /\ \E ev \in Events :
       /\ HasText(ev) /\ ~Decode(ev.payload).ok
       /\ stream_read' = Append(stream_read, ev)
       /\ Caught(stdout, Err("UnicodeDecodeError", <<"invalid utf-8">>))
  /\ UNCHANGED <<script, sys_argv, raised, calls, client>>
  /\ UNCHANGED <<agent_id, alias_id, question, completion, stream_state>>
  /\ UNCHANGED provVars

\* line 23: the stream raises instead of yielding the next event
TLoopRaise ==
  /\ script = "tester" /\ pc = "t_loop"
  /\ stream_state = "open"
  /\ stream_state' = "raised"
  /\ \E m \in TesterMsgs : Caught(stdout, Err("EventStreamError", m))
  /\ UNCHANGED <<script, sys_argv, raised, calls, client>>
  /\ UNCHANGED <<agent_id, alias_id, question, completion, stream_read>>
  /\ UNCHANGED provVars

\* variant: the accumulated text is printed once more after the loop
TLoopEnd_printsCompletion ==
  /\ script = "tester" /\ pc = "t_loop"
  /\ stream_state = "open"
  /\ stream_state' = "exhausted"
  /\ stdout' = Emit(stdout, completion, <<NL>>)
  /\ exit_status' = 0
  /\ pc' = "done"
  /\ UNCHANGED <<script, sys_argv, raised, calls, client>>
  /\ UNCHANGED <<agent_id, alias_id, question, completion, stream_read>>
  /\ UNCHANGED provVars

\* lines 23 and 31: the stream is exhausted
TLoopEnd ==
  /\ script = "tester" /\ pc = "t_loop"
  /\ stream_state = "open"
  /\ stream_state' = "exhausted"
  /\ stdout' = Emit(stdout, <<NL>>, <<NL>>)
  /\ exit_status' = 0
  /\ pc' = "done"
  /\ UNCHANGED <<script, sys_argv, raised, calls, client>>
  /\ UNCHANGED <<agent_id, alias_id, question, completion, stream_read>>
  /\ UNCHANGED provVars

\* line 11: boto3.client raises, nothing catches it
PAossClientFail ==
  /\ script = "provisioner" /\ pc = "main"
  /\ \E m \in ErrMsgs : Unhandled(Err("BotoCoreError", m))
  /\ UNCHANGED <<script, sys_argv, stdout, calls, client>>
  /\ UNCHANGED testerVars /\ UNCHANGED provVars

LookupRequest == [names |-> <<COLLECTION_NAME>>, region |-> REGION]

\* variant: the lookup is inside the try block, so the marker is tolerated
PLookupFail_tolerant ==
  /\ script = "provisioner" /\ pc = "main"
  /\ \E m \in ErrMsgs :
       LET e == Err("ClientError", m) IN
       /\ calls' = Append(calls, Call("batch_get_collection", LookupRequest,
                                      FALSE, e, <<>>))
       /\ IF IsSubstring(Marker, m)
          THEN /\ stdout' = Emit(stdout,
                              <<"(ok) Index '", INDEX_NAME, "' already exists">>,
                              <<NL>>)
               /\ exit_status' = 0
               /\ pc' = "done"
               /\ UNCHANGED raised
          ELSE /\ Unhandled(e)
               /\ UNCHANGED stdout
  /\ UNCHANGED <<script, sys_argv, client>>
  /\ UNCHANGED testerVars /\ UNCHANGED provVars

\* line 12: the lookup raises, nothing catches it
PLookupFail ==
  /\ script = "provisioner" /\ pc = "main"
  /\ \E m \in ErrMsgs :
       LET e == Err("ClientError", m) IN
       /\ calls' = Append(calls, Call("batch_get_collection", LookupRequest,
                                      FALSE, e, <<>>))
       /\ Unhandled(e)
  /\ UNCHANGED <<script, sys_argv, stdout, client>>
  /\ UNCHANGED testerVars /\ UNCHANGED provVars

\* lines 12-13: the lookup answers, but [0] or ['collectionEndpoint'] raises
PLookupNoEndpoint ==
  /\ script = "provisioner" /\ pc = "main"
  /\ \E ds \in SeqsUpTo(Details, MaxDetails) :
       /\ (IF ds = <<>> THEN TRUE ELSE ~ds[1].hasEndpoint)
       /\ calls' = Append(calls, Call("batch_get_collection", LookupRequest,
                                      TRUE, NoError, ds))
       /\ response' = [NoResponse EXCEPT !.set = TRUE, !.collectionDetails = ds]
       /\ Unhandled(IF ds = <<>>
                    THEN Err("IndexError", <<"list index out of range">>)
                    ELSE Err("KeyError", <<"collectionEndpoint">>))
  /\ UNCHANGED <<script, sys_argv, stdout, client>>
  /\ UNCHANGED testerVars /\ UNCHANGED <<endpoint, host, index_body>>

\* lines 11-16
PLookupOk ==
  /\ script = "provisioner" /\ pc = "main"
  /\ \E ds \in SeqsUpTo(Details, MaxDetails) :
       /\ (IF ds = <<>> THEN FALSE ELSE ds[1].hasEndpoint)
       /\ calls' = Append(calls, Call("batch_get_collection", LookupRequest,
                                      TRUE, NoError, ds))
       /\ response' = [NoResponse EXCEPT !.set = TRUE, !.collectionDetails = ds]
       /\ endpoint' = ds[1].collectionEndpoint
       /\ host' = Remove(ds[1].collectionEndpoint, <<Scheme>>)
       /\ stdout' = Emit(stdout, <<"Collection endpoint: ">>
                                 \o ds[1].collectionEndpoint, <<NL>>)
  /\ pc' = "p_client"
  /\ UNCHANGED <<script, sys_argv, exit_status, raised, client, index_body>>
  /\ UNCHANGED testerVars

\* lines 19-20: no credentials are found and AWSV4SignerAuth refuses them
PAuthFail ==
  /\ script = "provisioner" /\ pc = "p_client"
  /\ Unhandled(Err("ValueError", <<"Credentials cannot be empty">>))
  /\ UNCHANGED <<script, sys_argv, stdout, calls, client>>
  /\ UNCHANGED testerVars /\ UNCHANGED provVars

\* lines 19-54
PClient ==
  /\ script = "provisioner" /\ pc = "p_client"
  /\ client' = [service |-> "aoss", region |-> REGION, host |-> host,
                port |-> 443, timeout |-> 300]
  /\ index_body' = IndexBodyLiteral
  /\ pc' = "p_create"
  /\ UNCHANGED <<script, sys_argv, stdout, exit_status, raised, calls>>
  /\ UNCHANGED testerVars /\ UNCHANGED <<endpoint, host, response>>

CreateRequest == [index |-> INDEX_NAME, body |-> index_body, host |-> client.host]

\* variant: the whole message is compared with the marker
AlreadyExists_exact(e) == e.msg = Marker

AlreadyExists(e) == IsSubstring(Marker, e.msg)

\* lines 56-59
PCreateOk ==
  /\ script = "provisioner" /\ pc = "p_create"
  /\ calls' = Append(calls, Call("indices.create", CreateRequest, TRUE, NoError, <<>>))
  /\ response' = [NoResponse EXCEPT !.set = TRUE, !.acknowledged = TRUE]
  /\ stdout' = Emit(Emit(stdout,
                         <<"(ok) Index '", INDEX_NAME, "' created successfully!">>,
                         <<NL>>),
                    JsonDumps(response'), <<NL>>)
  /\ exit_status' = 0
  /\ pc' = "done"
  /\ UNCHANGED <<script, sys_argv, raised, client>>
  /\ UNCHANGED testerVars /\ UNCHANGED <<endpoint, host, index_body>>

\* lines 57 and 60-62: the call raises and the message has the marker
PCreateExists ==
  /\ script = "provisioner" /\ pc = "p_create"
  /\ \E m \in ErrMsgs :
       LET e == Err("RequestError", m) IN
       /\ AlreadyExists(e)
       /\ calls' = Append(calls, Call("indices.create", CreateRequest, FALSE, e, <<>>))
       /\ stdout' = Emit(stdout, <<"(ok) Index '", INDEX_NAME, "' already exists">>,
                         <<NL>>)
  /\ exit_status' = 0
  /\ pc' = "done"
  /\ UNCHANGED <<script, sys_argv, raised, client>>
  /\ UNCHANGED testerVars /\ UNCHANGED provVars

\* variant: a new error is raised in place of the caught one
PCreateFail_wrapped ==
  /\ script = "provisioner" /\ pc = "p_create"
  /\ \E m \in ErrMsgs :
       LET e == Err("RequestError", m) IN
       /\ ~AlreadyExists(e)
       /\ calls' = Append(calls, Call("indices.create", CreateRequest, FALSE, e,
                                      <<>>))
       /\ stdout' = Emit(stdout, <<"(x) Error: ">> \o e.msg, <<NL>>)
       /\ Unhandled(Err("RuntimeError", <<"index creation failed">>))
  /\ UNCHANGED <<script, sys_argv, client>>
  /\ UNCHANGED testerVars /\ UNCHANGED provVars

\* variant: the call is issued a second time before the error is given up on
PCreateFail_retry ==
  /\ script = "provisioner" /\ pc = "p_create"
  /\ \E m \in ErrMsgs :
       LET e == Err("RequestError", m) IN
       /\ ~AlreadyExists(e)
       /\ calls' = Append(Append(calls,
                      Call("indices.create", CreateRequest, FALSE, e, <<>>)),
                      Call("indices.create", CreateRequest, FALSE, e, <<>>))
       /\ stdout' = Emit(stdout, <<"(x) Error: ">> \o e.msg, <<NL>>)
       /\ Unhandled(e)
  /\ UNCHANGED <<script, sys_argv, client>>
  /\ UNCHANGED testerVars /\ UNCHANGED provVars

\* lines 57, 60 and 63-65: the call raises, the error is printed and re-raised
PCreateFail ==
  /\ script = "provisioner" /\ pc = "p_create"
  /\ \E m \in ErrMsgs :
       LET e == Err("RequestError", m) IN
       /\ ~AlreadyExists(e)
       /\ calls' = Append(calls, Call("indices.create", CreateRequest, FALSE, e, <<>>))
       /\ stdout' = Emit(stdout, <<"(x) Error: ">> \o e.msg, <<NL>>)
       /\ Unhandled(e)
  /\ UNCHANGED <<script, sys_argv, client>>
  /\ UNCHANGED testerVars /\ UNCHANGED provVars

Next ==
  \/ PAossClientFail
  \/ PLookupFail
  \/ PLookupNoEndpoint
  \/ PLookupOk
  \/ PAuthFail
  \/ PClient
  \/ PCreateOk
  \/ PCreateExists
  \/ PCreateFail
  \/ TMainUsage
  \/ TMainArgs
  \/ TClientOk
  \/ TClientFail
  \/ TInvokeOk
  \/ TInvokeFail
  \/ TLoopEvent
  \/ TLoopDecodeFail
  \/ TLoopRaise
  \/ TLoopEnd

Spec == Init /\ [][Next]_vars
(* ---------------- vocabulary of the properties ---------------- *)
Last(s) == s[Len(s)]
StartsWith(s, pre) == Len(s) >= Len(pre) /\ SubSeq(s, 1, Len(pre)) = pre
CallsOf(op) == {i \in DOMAIN calls : calls[i].op = op}
Tester == script = "tester"
Provisioner == script = "provisioner"

\* an event with a text payload: a chunk that has bytes
CarriesText(ev) == ev.chunk /\ ev.bytes
\* the decoded text payloads of the events of a stream prefix, in order
RECURSIVE FragmentsOf(_)
FragmentsOf(evs) ==
  IF evs = <<>> THEN <<>>
  ELSE IF CarriesText(Head(evs)) /\ Decode(Head(evs).payload).ok
       THEN <<Decode(Head(evs).payload).text>> \o FragmentsOf(Tail(evs))
       ELSE FragmentsOf(Tail(evs))

\* what test_agent prints before it reads the stream
Header(q) == << <<"Testing Agent...", NL>>,
                <<"Question: ", q, NL, NL>>,
                <<"Response:", NL>> >>
AfterHeader == SubSeq(stdout, Len(Header(question)) + 1, Len(stdout))

SuccessPrinted == \E i \in DOMAIN stdout : StartsWith(stdout[i], <<"(ok) Index '">>)
ErrorPrinted == \E i \in DOMAIN stdout : StartsWith(stdout[i], <<"(x) Error: ">>)

InvokeFailed == \E i \in CallsOf("invoke_agent") : ~calls[i].ok
DecodeFailed == \E i \in DOMAIN stream_read :
                  /\ CarriesText(stream_read[i])
                  /\ ~Decode(stream_read[i].payload).ok

\* C1: a run of the Agent Tester with fewer than 2 command-line arguments
\* never makes a client, never calls the agent and never reads a stream; it
\* goes from the start straight to its end, where it has printed the usage
\* message and nothing else, and its exit status is 1.
C1_UsageExit ==
  (Tester /\ Len(sys_argv) - 1 < 2) =>
     /\ client = NoClient
     /\ calls = <<>>
     /\ stream_state = "none"
     /\ pc \in {"main", "done"}
     /\ pc = "done" => /\ exit_status = 1
                       /\ stdout = << <<UsageLine, NL>> >>
                       /\ raised = NoError

C1_Witness == Tester /\ Len(sys_argv) = 2 /\ pc = "done" /\ stdout # <<>>

\* C2: when the create-index call fails with an error whose message contains
\* the already-exists marker, the Index Provisioner ends normally: exit status
\* 0, no error propagated, the "already exists" success message printed last
\* and no error message printed.
C2_AlreadyExistsIsSuccess ==
  \A i \in CallsOf("indices.create") :
     (~calls[i].ok /\ IsSubstring(Marker, calls[i].err.msg)) =>
        /\ pc = "done"
        /\ exit_status = 0
        /\ raised = NoError
        /\ Last(stdout) = <<"(ok) Index '", "textbook-index", "' already exists", NL>>
        /\ ~ErrorPrinted

C2_Witness ==
  \E i \in CallsOf("indices.create") :
     /\ ~calls[i].ok
     /\ IsSubstring(Marker, calls[i].err.msg)
     /\ Len(calls[i].err.msg) > Len(Marker)
     /\ pc = "done"

\* C3: when the create-index call fails with an error whose message does not
\* contain the already-exists marker, the Index Provisioner prints the error,
\* ends with a non-zero exit status, and the error that leaves the script is
\* the very error the call raised; no success message is printed.
C3_OtherErrorPropagates ==
  \A i \in CallsOf("indices.create") :
     (~calls[i].ok /\ ~IsSubstring(Marker, calls[i].err.msg)) =>
        /\ pc = "done"
        /\ exit_status # 0 /\ exit_status # -1
        /\ raised = calls[i].err
        /\ Last(stdout) = <<"(x) Error: ">> \o calls[i].err.msg \o <<NL>>
        /\ ~SuccessPrinted

\* the error has both parts of the marker, but not next to each other in order
C3_Witness ==
  \E i \in CallsOf("indices.create") :
     /\ ~calls[i].ok
     /\ ~IsSubstring(Marker, calls[i].err.msg)
     /\ calls[i].err.msg = <<"_exception", "resource_already_exists">>
     /\ pc = "done"

\* C4 as stated: after a stream that was read to its end without an error,
\* the fragments have been printed in order and then a print after them
\* shows the accumulated text.
C4_Original ==
  (Tester /\ pc = "done" /\ stream_state = "exhausted") =>
     /\ completion = Flat(FragmentsOf(stream_read))
     /\ \E k \in DOMAIN AfterHeader :
          /\ SubSeq(AfterHeader, 1, k - 1) = FragmentsOf(stream_read)
          /\ IsSubstring(completion, AfterHeader[k])

\* C4 as amended: after a stream that was read to its end without an error,
\* standard output holds the header, then one print per text fragment in
\* stream order, then a single print of a newline and nothing else; the
\* accumulator equals the concatenation of all fragments and is not printed;
\* the exit status is 0.
C4_FragmentsThenNewline ==
  (Tester /\ pc = "done" /\ stream_state = "exhausted") =>
     /\ completion = Flat(FragmentsOf(stream_read))
     /\ stdout = Header(question) \o FragmentsOf(stream_read) \o << <<NL, NL>> >>
     /\ exit_status = 0

C4_Witness ==
  /\ Tester /\ pc = "done" /\ stream_state = "exhausted"
  /\ Len(FragmentsOf(stream_read)) = 3
  /\ completion = <<"A", "e-acute", "A">>

\* C5: when the agent invocation fails, or the stream raises at any position,
\* or a payload cannot be decoded, the Agent Tester is at its end with exit
\* status 1 and the error is the last thing printed; exit status 0 is only
\* reached without any such failure.
C5_FailureExitsOne ==
  Tester =>
     /\ (InvokeFailed \/ stream_state = "raised" \/ DecodeFailed) =>
           /\ pc = "done"
           /\ exit_status = 1
           /\ StartsWith(Last(stdout), <<"Error: ">>)
     /\ \A i \in CallsOf("invoke_agent") :
           ~calls[i].ok => Last(stdout) = <<"Error: ">> \o calls[i].err.msg \o <<NL>>
     /\ exit_status = 0 =>
           ~InvokeFailed /\ ~DecodeFailed /\ stream_state = "exhausted"

\* the stream raises between fragments
C5_Witness ==
  /\ Tester /\ stream_state = "raised" /\ pc = "done"
  /\ Len(FragmentsOf(stream_read)) >= 1
  /\ Len(stream_read) < MaxEvents

\* C6: every create-index request names the index "textbook-index" and its
\* body is the fixed schema (k-NN on; a knn_vector field of dimension 1536,
\* HNSW on FAISS; a text field; an object field), and the schema variable
\* holds that value from its definition up to the call.
ExpectedSchema ==
  [defined |-> TRUE,
   settings |-> [index_knn |-> TRUE],
   mappings |-> [properties |->
      [embedding |-> [type |-> "knn_vector", dimension |-> 1536,
                      method |-> [engine |-> "faiss", name |-> "hnsw"]],
       content |-> [type |-> "text"],
       metadata |-> [type |-> "object"]]]]

C6_SchemaSent ==
  /\ \A i \in CallsOf("indices.create") :
        /\ calls[i].req.index = "textbook-index"
        /\ calls[i].req.body = ExpectedSchema
  /\ (Provisioner /\ pc = "p_create") => index_body = ExpectedSchema

C6_Witness ==
  \E i \in CallsOf("indices.create") : calls[i].ok /\ pc = "done"

\* C7: the Agent Tester invokes the agent at most once, and the invocation
\* carries argument 1 as agent identifier, argument 2 as alias identifier,
\* argument 3 as question when it is there and the fallback question when it
\* is not, and the session identifier "test-session-123".
C7_InvocationArguments ==
  /\ Cardinality(CallsOf("invoke_agent")) <= 1
  /\ \A i \in CallsOf("invoke_agent") :
        /\ Len(sys_argv) - 1 >= 2
        /\ calls[i].req.agentId = sys_argv[2]
        /\ calls[i].req.agentAliasId = sys_argv[3]
        /\ calls[i].req.inputText = (IF Len(sys_argv) - 1 >= 3 THEN sys_argv[4]
                                     ELSE "What is a derivative?")
        /\ calls[i].req.sessionId = "test-session-123"

C7_Witness ==
  \E i \in CallsOf("invoke_agent") :
     Len(sys_argv) = 3 /\ sys_argv[2] # sys_argv[3]

\* C8: once the stream is open, the accumulator equals the concatenation, in
\* order, of the decoded payloads of the consumed events that carry text, and
\* while the loop runs so does the text printed after the header; consuming
\* an event without a chunk, or a chunk without bytes, changes neither the
\* accumulator nor standard output and leaves the loop running.
C8_Accumulated ==
  (Tester /\ stream_state # "none") =>
     /\ completion = Flat(FragmentsOf(stream_read))
     /\ pc = "t_loop" =>
          /\ StartsWith(stdout, Header(question))
          /\ Flat(AfterHeader) = Flat(FragmentsOf(stream_read))

C8_SkipStep ==
  (/\ pc = "t_loop"
   /\ stream_read' # stream_read
   /\ ~CarriesText(Last(stream_read'))) =>
      /\ completion' = completion
      /\ stdout' = stdout
      /\ pc' = "t_loop"
      /\ stream_state' = "open"

C8_StreamingLoop == []C8_Accumulated /\ [][C8_SkipStep]_vars

\* a text event, then an event without text, then a text event
C8_Witness ==
  /\ Tester /\ pc = "t_loop" /\ Len(stream_read) = 3
  /\ CarriesText(stream_read[1]) /\ ~CarriesText(stream_read[2])
  /\ CarriesText(stream_read[3])
  /\ completion = <<"A", "e-acute">>

\* C9: each external call (endpoint lookup, create-index, agent invocation)
\* is issued at most once in a run; the stream is only ever read forward, one
\* event at a time, and not at all once it has ended or raised; after a call
\* has failed or the stream has raised, no call is made and nothing is read.
C9_AtMostOnce ==
  \A op \in {"batch_get_collection", "indices.create", "invoke_agent"} :
     Cardinality(CallsOf(op)) <= 1

C9_Failed == (\E i \in DOMAIN calls : ~calls[i].ok) \/ stream_state = "raised"

C9_NoRetryStep ==
  /\ C9_Failed => (calls' = calls /\ stream_read' = stream_read)
  /\ \/ stream_read' = stream_read
     \/ /\ stream_state = "open"
        /\ Len(stream_read') = Len(stream_read) + 1
        /\ SubSeq(stream_read', 1, Len(stream_read)) = stream_read
  /\ stream_state \in {"exhausted", "raised"} => stream_state' = stream_state

C9_NoRetry == []C9_AtMostOnce /\ [][C9_NoRetryStep]_vars

C9_Witness ==
  /\ Provisioner /\ pc = "done"
  /\ Len(calls) = 2 /\ calls[1].ok /\ ~calls[2].ok /\ exit_status = 1

\* C10: a create-index call is only ever issued after an endpoint lookup that
\* returned at least one collection detail and after the client was made for
\* that endpoint's host; a lookup that fails or returns no detail ends the
\* run with exit status 1, the error propagated, no create-index call and no
\* success message, also when its message contains the already-exists marker.
C10_LookupBeforeCreate ==
  Provisioner =>
     /\ \A j \in CallsOf("indices.create") :
          /\ \E i \in CallsOf("batch_get_collection") :
                i < j /\ calls[i].ok /\ Len(calls[i].result) >= 1
          /\ client # NoClient
          /\ calls[j].req.host = Remove(endpoint, <<"https://">>)
     /\ \A i \in CallsOf("batch_get_collection") :
          (~calls[i].ok \/ Len(calls[i].result) = 0) =>
             /\ pc = "done"
             /\ exit_status = 1
             /\ raised # NoError
             /\ ~calls[i].ok => raised = calls[i].err
             /\ CallsOf("indices.create") = {}
             /\ ~SuccessPrinted

C10_Witness ==
  \E i \in CallsOf("batch_get_collection") :
     ~calls[i].ok /\ IsSubstring(Marker, calls[i].err.msg) /\ pc = "done"
====
